---------------------------- MODULE Spec2Model ----------------------------
(***************************************************************************)
(* AI Thumbnail Generator: the page controller (src/app/page.tsx) and the  *)
(* Generate proxy (src/unnamed/part_000, the POST route handler).          *)
(*                                                                         *)
(* Text is modelled as a sequence of chunks.  A chunk is either one        *)
(* whitespace character (" ") or a piece of text that neither begins nor   *)
(* ends with whitespace.  The empty string is << >>, string concatenation  *)
(* is \o, and String.prototype.trim() strips the whitespace chunks at both *)
(* ends.  Text typed by the user and response bodies are sequences of      *)
(* one-character chunks, so Len is their length in characters.             *)
(*                                                                         *)
(* A handler that awaits is one action per stretch between awaits; the     *)
(* effects a handler's state changes trigger run in its action.            *)
(*                                                                         *)
(* Spec is the page with a working localStorage, a theme that is left      *)
(* alone and no preview of the uploaded file.  SpecStorage adds the theme  *)
(* effects and localStorage calls that throw, SpecPreview adds the preview *)
(* object URL of the uploaded file and the teardown of the page.           *)
(***************************************************************************)
EXTENDS Integers, Sequences, FiniteSets, TLC

VARIABLES
    page,            \* "unmounted" before the mount effects ran, then "mounted"
    thumbHistory,    \* localStorage entry "thumbHistory"
    answers,         \* useState<FormAnswers>
    prompt,          \* useState<string>
    promptTouched,   \* useState<boolean>
    uploadFile,      \* useState<File | null>
    imageUrl,        \* useState<string>
    loading,         \* useState<boolean>, the busy flag
    error,           \* useState<string>
    history,         \* useState<HistoryItem[]>
    lastRequestRef,  \* useRef<{route, payload} | null>
    inflight,        \* submit / regenerate invocations suspended at an await
    fetchCount,      \* the number of fetch() calls issued so far
    lastFetch,       \* the most recent fetch() call: its route and body
    composeCall,     \* composePrompt: arguments of the call under test
    composeResult,   \* composePrompt: its return value
    proxyCall,       \* POST: the incoming request and what the upstream will do
    proxyResult,     \* POST: the response returned, and the upstream calls made
    theme,           \* useState<Theme>
    themeStored,     \* localStorage entry "theme"
    storageDown,     \* TRUE while the calls of localStorage throw
    uncaught,        \* the effects an exception has escaped from
    uploadPreview,   \* useState<string | null>, the object URL of the preview
    objectUrls,      \* the object URLs created and not revoked
    urlCount         \* the number of URL.createObjectURL() calls so far

vars == <<page, thumbHistory, answers, prompt, promptTouched, uploadFile,
          imageUrl, loading, error, history, lastRequestRef, inflight,
          fetchCount, lastFetch,
          composeCall, composeResult, proxyCall,
          proxyResult, theme, themeStored, storageDown, uncaught,
          uploadPreview, objectUrls, urlCount>>

pageVars == <<page, thumbHistory, answers, prompt, promptTouched, uploadFile,
              imageUrl, loading, error, history, lastRequestRef, inflight,
              fetchCount, lastFetch>>

Null == [null |-> TRUE]

-----------------------------------------------------------------------------
(* Bounds of the model.                                                    *)

\* fetch() calls issued in one behaviour
MaxRequests == 2
\* content parts in the upstream's first candidate
MaxParts == 3
\* characters in the body of a non-2xx response
MaxBodyLen == 302
\* URL.createObjectURL() calls in one behaviour
MaxPreviews == 3

-----------------------------------------------------------------------------
(* Text helpers.                                                           *)

IsSpace(c) == c = " "

RECURSIVE TrimStart(_)
TrimStart(s) ==
    IF s # << >> /\ IsSpace(Head(s)) THEN TrimStart(Tail(s)) ELSE s

RECURSIVE TrimEnd(_)
TrimEnd(s) ==
    IF s # << >> /\ IsSpace(s[Len(s)])
        THEN TrimEnd(SubSeq(s, 1, Len(s) - 1))
        ELSE s

\* String.prototype.trim
Trim(s) == TrimEnd(TrimStart(s))

\* Array.prototype.join
RECURSIVE Join(_, _)
Join(parts, sep) ==
    IF parts = << >> THEN << >>
    ELSE IF Len(parts) = 1 THEN parts[1]
    ELSE parts[1] \o sep \o Join(Tail(parts), sep)

\* a || b on strings: the empty string is falsy
OrElse(a, b) == IF a # << >> THEN a ELSE b

-----------------------------------------------------------------------------
(* Prompt composition.                                                     *)

DEFAULT_ANSWERS ==
    [category |-> "Tech", customCategory |-> << >>,
     style |-> "Minimal", customStyle |-> << >>,
     textOverlay |-> << >>,
     vibe |-> "Bright", customVibe |-> << >>]

categoryText(a) ==
    IF a.category = "Other"
        THEN OrElse(a.customCategory, <<"Other">>)
        ELSE <<a.category>>

styleText(a) ==
    IF a.style = "Custom"
        THEN OrElse(a.customStyle, <<"Custom">>)
        ELSE <<a.style>>

vibeText(a) ==
    IF a.vibe = "Custom"
        THEN OrElse(a.customVibe, <<"Custom">>)
        ELSE <<a.vibe>>

overlay(a) ==
    IF a.textOverlay # << >> /\ Len(Trim(a.textOverlay)) > 0
        THEN <<"Include text overlay:", " ", "\"">> \o Trim(a.textOverlay)
                 \o <<"\"", ".">>
        ELSE <<"No text overlay.">>

ReferenceClause == <<"Use the uploaded reference image as visual guidance.">>

GuidelinesClause ==
    <<"16:9 thumbnail composition, high contrast, no watermarks, suitable for social/YouTube.">>

\* composeParts with the reference clause pushed after the guidelines
composePartsReferenceLast(a, hasImage) ==
    << <<"Category:", " ">> \o categoryText(a) \o <<".">>,
       <<"Style:", " ">> \o styleText(a) \o <<".">>,
       <<"Colors/Vibe:", " ">> \o vibeText(a) \o <<".">>,
       overlay(a) >>
    \o <<GuidelinesClause>>
    \o (IF hasImage THEN <<ReferenceClause>> ELSE << >>)

composeParts(a, hasImage) ==
    << <<"Category:", " ">> \o categoryText(a) \o <<".">>,
       <<"Style:", " ">> \o styleText(a) \o <<".">>,
       <<"Colors/Vibe:", " ">> \o vibeText(a) \o <<".">>,
       overlay(a) >>
    \o (IF hasImage THEN <<ReferenceClause>> ELSE << >>)
    \o <<GuidelinesClause>>

composePrompt(a, hasImage) == Join(composeParts(a, hasImage), <<" ">>)

-----------------------------------------------------------------------------
(* JSON.                                                                   *)

\* a string value as JSON.stringify writes it: quoted, inner quotes escaped
Quote(s) ==
    <<"\"">> \o [i \in DOMAIN s |-> IF s[i] = "\"" THEN "\\\"" ELSE s[i]]
             \o <<"\"">>

Member(kv) == <<"\"", kv[1], "\"", ":">> \o Quote(kv[2])

\* JSON.stringify of an object whose members are strings; an object is the
\* sequence of its <<key, value>> members in insertion order
JSONstringify(obj) ==
    <<"{">> \o Join([i \in DOMAIN obj |-> Member(obj[i])], <<",">>) \o <<"}">>

\* a HistoryItem as JSON.stringify / JSON.parse carry it through storage
StoreItem(item) ==
    << <<"data_url", item.data_url>>, <<"prompt", item.prompt>>,
       <<"answers", item.answers>>, <<"timestamp", item.timestamp>> >>

\* what reading a property an object does not have gives
Undefined == [undefined |-> TRUE]

\* obj.key of a parsed object
Get(m, key) ==
    IF \E i \in DOMAIN m : m[i][1] = key
        THEN m[CHOOSE i \in DOMAIN m : m[i][1] = key][2]
        ELSE Undefined

\* a parsed element of the stored array, read as a HistoryItem
ParseItem(m) ==
    [data_url |-> Get(m, "data_url"), prompt |-> Get(m, "prompt"),
     answers |-> Get(m, "answers"), timestamp |-> Get(m, "timestamp")]

StoreHistory(h) == [kind |-> "array", items |-> [i \in DOMAIN h |-> StoreItem(h[i])]]

ParseHistory(items) == [i \in DOMAIN items |-> ParseItem(items[i])]

NoEntry == [kind |-> "none", items |-> << >>]

Unparseable == [kind |-> "unparseable", items |-> << >>]

-----------------------------------------------------------------------------
(* Inputs.                                                                 *)

DataUrls == {"data:image/png;base64,BBBB"}

OldItem ==
    [data_url |-> "data:image/png;base64,AAAA",
     prompt |-> <<"o", "l", "d">>,
     answers |-> [DEFAULT_ANSWERS EXCEPT !.category = "Other"],
     timestamp |-> 0]

\* what localStorage may hold under "thumbHistory" when the page loads
StoredAtLoad == {NoEntry, Unparseable, StoreHistory(<<OldItem>>)}

\* the <<key, value>> changes the guided controls make in this model
AnswerInputs == { <<"category", "Other">>, <<"category", "Tech">> }

PromptInputs == { << >>, <<" ">>, <<" ", "a">> }

Files ==
    { [name |-> "a.jpg", type |-> <<"image/jpeg">>,
       dataUrl |-> <<"data:image/jpeg;base64", ",", "QUJD">>] }

\* the bodies of the non-2xx responses
Bodies == { <<"N", "o">> }

\* the values Date.now() returns
Timestamps == {1}

NoJson == [valid |-> FALSE, data_url |-> ""]

\* what fetch() may settle with: a rejection, a non-2xx response whose body
\* can or cannot be read, a 2xx response whose body is or is not JSON with a
\* data_url
Responses ==
    { [kind |-> "reject", message |-> m, ok |-> FALSE, text |-> << >>,
       readable |-> FALSE, json |-> NoJson] :
          m \in { << >> } }
    \cup
    { [kind |-> "http", message |-> << >>, ok |-> FALSE, text |-> b,
       readable |-> TRUE, json |-> NoJson] : b \in Bodies }
    \cup
    { [kind |-> "http", message |-> << >>, ok |-> TRUE, text |-> << >>,
       readable |-> TRUE, json |-> j] :
          j \in { [valid |-> TRUE, data_url |-> d] : d \in DataUrls \cup {""} } }

-----------------------------------------------------------------------------
(* The page: helpers of the handlers.                                      *)

\* String.prototype.split on a one-character separator
RECURSIVE Split(_, _, _)
Split(s, sep, acc) ==
    IF s = << >> THEN <<acc>>
    ELSE IF Head(s) = sep THEN <<acc>> \o Split(Tail(s), sep, << >>)
    ELSE Split(Tail(s), sep, acc \o <<Head(s)>>)

\* fileToBase64, once the FileReader has loaded the file
fileToBase64(file) ==
    LET pieces == Split(file.dataUrl, ",", << >>)
    IN  [base64 |-> IF Len(pieces) >= 2 THEN OrElse(pieces[2], << >>) ELSE << >>,
         mime |-> OrElse(file.type, <<"image/png">>)]

Ellipsis == "..."  \* the single character U+2026

truncate(s, n) == IF Len(s) > n THEN SubSeq(s, 1, n) \o <<Ellipsis>> ELSE s

safeReadText(res) == IF res.readable THEN res.text ELSE << >>

derivedPrompt == composePrompt(answers, uploadFile # Null)

\* promptAfterSync with the effect not testing the touched flag
promptAfterSyncAlways(a, f, touched, p) ==
    LET derived == composePrompt(a, f # Null)
    IN  IF derived # derivedPrompt THEN derived ELSE p

\* the prompt after the sync effect of a render in which the answers, the
\* file and the touched flag became a, f and touched and the handler left
\* the prompt at p: the effect runs when derivedPrompt changed
promptAfterSync(a, f, touched, p) ==
    LET derived == composePrompt(a, f # Null)
    IN  IF ~touched /\ derived # derivedPrompt THEN derived ELSE p

\* the label a failed response is reported under
FailureLabel(op) ==
    IF op.kind = "regenerate" THEN <<"Regenerate failed.">>
    ELSE IF op.route = "/api/edit" THEN <<"Edit request failed.">>
    ELSE <<"Generate request failed.">>

FallbackMessage(op) ==
    IF op.kind = "regenerate"
        THEN <<"Could not regenerate the image.">>
        ELSE <<"Something went wrong while processing your request.">>

\* ThrownBy without the check that the 2xx body carries a data_url
ThrownByUnchecked(op, res) ==
    IF res.kind = "reject" THEN [message |-> res.message]
    ELSE IF ~res.ok
        THEN [message |-> FailureLabel(op) \o <<" ">> \o
                  (IF safeReadText(res) # << >>
                      THEN <<"Details:", " ">> \o truncate(safeReadText(res), 300)
                      ELSE << >>)]
    ELSE Null

\* the message of the Error thrown while a settled fetch is handled, or Null
\* when nothing is thrown
ThrownBy(op, res) ==
    IF res.kind = "reject" THEN [message |-> res.message]
    ELSE IF ~res.ok
        THEN [message |-> FailureLabel(op) \o <<" ">> \o
                  (IF safeReadText(res) # << >>
                      THEN <<"Details:", " ">> \o truncate(safeReadText(res), 300)
                      ELSE << >>)]
    ELSE IF ~res.json.valid THEN [message |-> <<"Unexpected end of JSON input">>]
    ELSE IF res.json.data_url = ""
        THEN [message |-> <<"Invalid response: missing data_url">>]
    ELSE Null

Remove(seq, i) == SubSeq(seq, 1, i - 1) \o SubSeq(seq, i + 1, Len(seq))

Operation(kind, phase, route, payload, file, a) ==
    [kind |-> kind, phase |-> phase, route |-> route, payload |-> payload,
     file |-> file, answers |-> a,
     before |-> [history |-> history, thumbHistory |-> thumbHistory,
                 imageUrl |-> imageUrl]]

Fetch(route, payload) == [route |-> route, body |-> JSONstringify(payload)]

-----------------------------------------------------------------------------
(* The page: initial state and handlers.                                   *)

\* the initial values of the state hooks
PageState ==
    /\ page = "unmounted"
    /\ answers = DEFAULT_ANSWERS
    /\ prompt = << >>
    /\ promptTouched = FALSE
    /\ uploadFile = Null
    /\ imageUrl = ""
    /\ loading = FALSE
    /\ error = << >>
    /\ history = << >>
    /\ lastRequestRef = Null
    /\ inflight = << >>
    /\ fetchCount = 0
    /\ lastFetch = Null

PageInit ==
    /\ thumbHistory \in StoredAtLoad
    /\ PageState

\* the effects of the first render: history is read from storage, the prompt
\* is prefilled, the sync effect runs
Mount ==
    /\ page = "unmounted"
    /\ page' = "mounted"
    /\ history' = IF ~storageDown /\ thumbHistory.kind = "array"
                      THEN ParseHistory(thumbHistory.items)
                      ELSE history
    /\ prompt' = IF ~promptTouched
                     THEN derivedPrompt
                     ELSE composePrompt(DEFAULT_ANSWERS, FALSE)
    /\ UNCHANGED <<thumbHistory, answers, promptTouched, uploadFile, imageUrl,
                   loading, error, lastRequestRef, inflight, fetchCount, lastFetch>>

onAnswersChange(key, value) ==
    /\ page = "mounted" /\ ~loading
    /\ key = "customCategory" => answers.category = "Other"
    /\ answers' = [answers EXCEPT ![key] = value]
    /\ prompt' = promptAfterSync(answers', uploadFile, promptTouched, prompt)
    /\ UNCHANGED <<page, thumbHistory, promptTouched, uploadFile, imageUrl,
                   loading, error, history, lastRequestRef, inflight,
                   fetchCount, lastFetch>>

\* onFileChange, without the preview URL it revokes and creates
onFileChange(file) ==
    /\ page = "mounted" /\ ~loading
    /\ uploadFile' = file
    /\ prompt' = promptAfterSync(answers, file, promptTouched, prompt)
    /\ UNCHANGED <<page, thumbHistory, answers, promptTouched, imageUrl,
                   loading, error, history, lastRequestRef, inflight,
                   fetchCount, lastFetch>>

\* onChange of the prompt textarea
onPromptChange(value) ==
    /\ page = "mounted" /\ ~loading
    /\ prompt' = value
    /\ promptTouched' = TRUE
    /\ UNCHANGED <<page, thumbHistory, answers, uploadFile, imageUrl, loading,
                   error, history, lastRequestRef, inflight, fetchCount, lastFetch>>

\* onClick of "Sync prompt from answers", rendered while promptTouched
onSyncPrompt ==
    /\ page = "mounted" /\ ~loading
    /\ promptTouched
    /\ prompt' = derivedPrompt
    /\ promptTouched' = FALSE
    /\ UNCHANGED <<page, thumbHistory, answers, uploadFile, imageUrl, loading,
                   error, history, lastRequestRef, inflight, fetchCount, lastFetch>>

\* onClearHistory without the removal of the storage entry
onClearHistoryInMemory ==
    /\ page = "mounted" /\ ~loading
    /\ Len(history) # 0
    /\ history' = << >>
    /\ UNCHANGED <<page, thumbHistory, answers, prompt, promptTouched,
                   uploadFile, imageUrl, loading, error, lastRequestRef,
                   inflight, fetchCount, lastFetch>>

onClearHistory ==
    /\ page = "mounted" /\ ~loading
    /\ Len(history) # 0
    /\ history' = << >>
    /\ thumbHistory' = IF storageDown THEN thumbHistory ELSE NoEntry
    /\ UNCHANGED <<page, answers, prompt, promptTouched, uploadFile, imageUrl,
                   loading, error, lastRequestRef, inflight, fetchCount, lastFetch>>

\* addToHistory with the new item put behind the others
addToHistoryAtEnd(item) ==
    /\ history' = history \o <<item>>
    /\ thumbHistory' = StoreHistory(history \o <<item>>)

addToHistory(item) ==
    /\ history' = <<item>> \o history
    /\ thumbHistory' = IF storageDown
                           THEN thumbHistory
                           ELSE StoreHistory(<<item>> \o history)

\* onSelectHistory remembering a request built from the selected entry
onSelectHistoryAsRequest(i) ==
    /\ page = "mounted"
    /\ i \in DOMAIN history
    /\ imageUrl' = history[i].data_url
    /\ answers' = history[i].answers
    /\ prompt' = history[i].prompt
    /\ promptTouched' = TRUE
    /\ lastRequestRef' = [route |-> "/api/generate",
                          payload |-> << <<"prompt", history[i].prompt>> >>]
    /\ UNCHANGED <<page, thumbHistory, uploadFile, loading, error, history,
                   inflight, fetchCount, lastFetch>>

\* onSelectHistory marking the loaded prompt as derived
onSelectHistoryAsDerived(i) ==
    /\ page = "mounted"
    /\ i \in DOMAIN history
    /\ imageUrl' = history[i].data_url
    /\ answers' = history[i].answers
    /\ prompt' = history[i].prompt
    /\ promptTouched' = FALSE
    /\ UNCHANGED <<page, thumbHistory, uploadFile, loading, error, history,
                   lastRequestRef, inflight, fetchCount, lastFetch>>

onSelectHistory(i) ==
    /\ page = "mounted"
    /\ i \in DOMAIN history
    /\ imageUrl' = history[i].data_url
    /\ answers' = history[i].answers
    /\ prompt' = history[i].prompt
    /\ promptTouched' = TRUE
    /\ UNCHANGED <<page, thumbHistory, uploadFile, loading, error, history,
                   lastRequestRef, inflight, fetchCount, lastFetch>>

ValidationMessage ==
    <<"Please provide a prompt or complete the guided answers.">>

activePrompt == Trim(OrElse(prompt, derivedPrompt))

\* the validation with the emptiness test made before the trim
promptMissingUntrimmed == OrElse(prompt, derivedPrompt) = << >>

\* !activePrompt
promptMissing == activePrompt = << >>

\* the submit button with no disabled attribute
submitAlwaysEnabled == FALSE

\* disabled={loading} of the submit button
submitDisabled == loading

\* handleSubmit up to its first await: validation, then either the file read
\* is started or the /api/generate request is issued
handleSubmit ==
    /\ page = "mounted" /\ ~submitDisabled
    /\ LET payload == << <<"prompt", activePrompt>> >>
       IN  IF promptMissing
               THEN /\ error' = ValidationMessage
                    /\ UNCHANGED <<loading, lastRequestRef, inflight, fetchCount,
                                   lastFetch>>
           ELSE IF uploadFile # Null
               THEN /\ fetchCount + Len(inflight) < MaxRequests
                    /\ error' = << >>
                    /\ loading' = TRUE
                    /\ inflight' = Append(inflight,
                           Operation("submit", "reading", "/api/edit",
                                     payload, uploadFile, answers))
                    /\ UNCHANGED <<lastRequestRef, fetchCount, lastFetch>>
           ELSE /\ fetchCount + Len(inflight) < MaxRequests
                /\ error' = << >>
                /\ loading' = TRUE
                /\ lastRequestRef' = [route |-> "/api/generate", payload |-> payload]
                /\ fetchCount' = fetchCount + 1
                /\ lastFetch' = Fetch("/api/generate", payload)
                /\ inflight' = Append(inflight,
                       Operation("submit", "fetching", "/api/generate",
                                 payload, Null, answers))
    /\ UNCHANGED <<page, thumbHistory, answers, prompt, promptTouched,
                   uploadFile, imageUrl, history>>

\* handleSubmit resumes after fileToBase64 resolved: the /api/edit request
\* is remembered and issued
fileReadResolves(i) ==
    /\ i \in DOMAIN inflight
    /\ inflight[i].phase = "reading"
    /\ LET op == inflight[i]
           read == fileToBase64(op.file)
           payload == << <<"prompt", op.payload[1][2]>>,
                         <<"base64Image", read.base64>>,
                         <<"mimeType", read.mime>> >>
       IN  /\ lastRequestRef' = [route |-> "/api/edit", payload |-> payload]
           /\ fetchCount' = fetchCount + 1
           /\ lastFetch' = Fetch("/api/edit", payload)
           /\ inflight' = [inflight EXCEPT ![i] =
                  [op EXCEPT !.phase = "fetching", !.payload = payload]]
    /\ UNCHANGED <<page, thumbHistory, answers, prompt, promptTouched,
                   uploadFile, imageUrl, loading, error, history>>

\* handleSubmit resumes after fileToBase64 rejected (reader.onerror)
fileReadRejects(i) ==
    /\ i \in DOMAIN inflight
    /\ inflight[i].phase = "reading"
    /\ error' = OrElse(<<"Failed to read file">>, FallbackMessage(inflight[i]))
    /\ loading' = FALSE
    /\ inflight' = Remove(inflight, i)
    /\ UNCHANGED <<page, thumbHistory, answers, prompt, promptTouched,
                   uploadFile, imageUrl, history, lastRequestRef, fetchCount, lastFetch>>

\* the request of a regenerate rebuilt from the prompt field
regenerateFromPrompt ==
    [route |-> lastRequestRef.route, payload |-> << <<"prompt", activePrompt>> >>]

\* const {route, payload} = lastRequestRef.current
regenerateRequest == lastRequestRef

\* disabled={loading || !lastRequestRef.current} of the regenerate button;
\* its second condition is the early return of handleRegenerate
regenerateDisabled == loading

\* handleRegenerate up to its await: the remembered request is issued again
handleRegenerate ==
    /\ page = "mounted" /\ ~regenerateDisabled
    /\ IF lastRequestRef = Null
           THEN UNCHANGED <<error, loading, inflight, fetchCount, lastFetch>>
           ELSE /\ fetchCount + Len(inflight) < MaxRequests
                /\ error' = << >>
                /\ loading' = TRUE
                /\ fetchCount' = fetchCount + 1
                /\ lastFetch' = Fetch(regenerateRequest.route,
                                       regenerateRequest.payload)
                /\ inflight' = Append(inflight,
                       Operation("regenerate", "fetching",
                                 regenerateRequest.route,
                                 regenerateRequest.payload, Null, answers))
    /\ UNCHANGED <<page, thumbHistory, answers, prompt, promptTouched,
                   uploadFile, imageUrl, history, lastRequestRef>>

\* a handler resumes after its fetch settled with a 2xx response that carries
\* a data_url: the image is shown and added to the history
requestSucceeds(i, res, t) ==
    /\ i \in DOMAIN inflight
    /\ inflight[i].phase = "fetching"
    /\ ThrownBy(inflight[i], res) = Null
    /\ imageUrl' = res.json.data_url
    /\ addToHistory([data_url |-> res.json.data_url,
                     prompt |-> inflight[i].payload[1][2],
                     answers |-> inflight[i].answers,
                     timestamp |-> t])
    /\ loading' = FALSE
    /\ inflight' = Remove(inflight, i)
    /\ UNCHANGED <<page, answers, prompt, promptTouched, uploadFile, error,
                   lastRequestRef, fetchCount, lastFetch>>

\* requestFails with the catch block forgetting the remembered request
requestFailsForgetting(i, res) ==
    /\ i \in DOMAIN inflight
    /\ inflight[i].phase = "fetching"
    /\ ThrownBy(inflight[i], res) # Null
    /\ error' = OrElse(ThrownBy(inflight[i], res).message,
                       FallbackMessage(inflight[i]))
    /\ loading' = FALSE
    /\ inflight' = Remove(inflight, i)
    /\ lastRequestRef' = Null
    /\ UNCHANGED <<page, thumbHistory, answers, prompt, promptTouched,
                   uploadFile, imageUrl, history, fetchCount, lastFetch>>

\* a handler resumes after its fetch was rejected, or settled with a response
\* that makes the handler throw: the catch and finally blocks run
requestFails(i, res) ==
    /\ i \in DOMAIN inflight
    /\ inflight[i].phase = "fetching"
    /\ ThrownBy(inflight[i], res) # Null
    /\ error' = OrElse(ThrownBy(inflight[i], res).message,
                       FallbackMessage(inflight[i]))
    /\ loading' = FALSE
    /\ inflight' = Remove(inflight, i)
    /\ UNCHANGED <<page, thumbHistory, answers, prompt, promptTouched,
                   uploadFile, imageUrl, history, lastRequestRef, fetchCount, lastFetch>>

fnVars == <<composeCall, composeResult, proxyCall, proxyResult>>

themeVars == <<theme, themeStored, uncaught>>

previewVars == <<uploadPreview, objectUrls, urlCount>>

Idle == UNCHANGED <<fnVars, themeVars, storageDown, previewVars>>

\* the theme, the storage and the preview as the page is constructed
EnvironmentIdle ==
    /\ theme = "light"
    /\ themeStored = Null
    /\ storageDown = FALSE
    /\ uncaught = {}
    /\ uploadPreview = Null
    /\ objectUrls = {}
    /\ urlCount = 0

FunctionsIdle ==
    /\ composeCall = Null
    /\ composeResult = Null
    /\ proxyCall = Null
    /\ proxyResult = Null

Init == PageInit /\ FunctionsIdle /\ EnvironmentIdle

Next ==
    \/ Mount /\ Idle
    \/ \E kv \in AnswerInputs : onAnswersChange(kv[1], kv[2]) /\ Idle
    \/ \E f \in Files \cup {Null} : onFileChange(f) /\ Idle
    \/ \E v \in PromptInputs : onPromptChange(v) /\ Idle
    \/ onSyncPrompt /\ Idle
    \/ onClearHistory /\ Idle
    \/ \E i \in 1..MaxRequests + 1 : onSelectHistory(i) /\ Idle
    \/ handleSubmit /\ Idle
    \/ handleRegenerate /\ Idle
    \/ \E i \in 1..MaxRequests : fileReadResolves(i) /\ Idle
    \/ \E i \in 1..MaxRequests : fileReadRejects(i) /\ Idle
    \/ \E i \in 1..MaxRequests, res \in Responses, t \in Timestamps :
           requestSucceeds(i, res, t) /\ Idle
    \/ \E i \in 1..MaxRequests, res \in Responses : requestFails(i, res) /\ Idle

Spec == Init /\ [][Next]_vars

-----------------------------------------------------------------------------
(* composePrompt on its own: every FormAnswers of the enumerations, with   *)
(* free-text fields that are empty, blank, or text with blanks around it.  *)

Categories == {"Education", "Cooking", "Vlog", "Gaming", "Tech", "Other"}

Styles == {"Minimal", "Bold", "Fun", "Professional", "Custom"}

Vibes == {"Bright", "Dark", "Pastel", "Neon", "Custom"}

CustomTexts == { << >>, <<" ">>, <<"N", "e", "o">> }

OverlayTexts == { << >>, <<" ", " ">>, <<"5", " ", "T">>, <<" ", "5", " ", "T", " ">> }

AllAnswers ==
    [category : Categories, customCategory : CustomTexts,
     style : Styles, customStyle : CustomTexts,
     textOverlay : OverlayTexts,
     vibe : Vibes, customVibe : CustomTexts]

PageIdle ==
    /\ PageInit
    /\ thumbHistory = NoEntry

ComposeInit ==
    /\ PageIdle
    /\ composeCall \in [answers : AllAnswers, hasImage : BOOLEAN]
    /\ composeResult = Null
    /\ proxyCall = Null
    /\ proxyResult = Null
    /\ EnvironmentIdle

callComposePrompt ==
    /\ composeCall # Null
    /\ composeResult = Null
    /\ composeResult' = composePrompt(composeCall.answers, composeCall.hasImage)
    /\ UNCHANGED <<pageVars, composeCall, proxyCall, proxyResult>>
    /\ UNCHANGED <<themeVars, storageDown, previewVars>>

ComposeNext == callComposePrompt

SpecCompose == ComposeInit /\ [][ComposeNext]_vars

-----------------------------------------------------------------------------
(* The Generate proxy: POST of the /api/generate route.                    *)

TextPart == [inlineData |-> Null]

InlinePart(data) == [inlineData |-> [data |-> data]]

Parts == {TextPart, InlinePart("AAAA"), InlinePart("BBBB")}

PartLists == UNION { [1..n -> Parts] : n \in 0..MaxParts }

\* what ai.models.generateContent does: it throws an Error or another value
\* (message is err.message, or String(err)), or returns a response in which
\* candidates?.[0]?.content?.parts is undefined or an array of parts
UpstreamOutcomes ==
    { [kind |-> "throws", isError |-> e, message |-> m, hasParts |-> FALSE,
       parts |-> << >>] : e \in BOOLEAN, m \in {"", "quota exceeded"} }
    \cup
    { [kind |-> "returns", isError |-> FALSE, message |-> "",
       hasParts |-> FALSE, parts |-> << >>] }
    \cup
    { [kind |-> "returns", isError |-> FALSE, message |-> "",
       hasParts |-> TRUE, parts |-> ps] : ps \in PartLists }

\* the request body: JSON with a prompt, or text req.json() cannot parse
RequestBodies ==
    { [valid |-> TRUE, prompt |-> "a cat"], [valid |-> FALSE, prompt |-> ""] }

\* NextResponse.json(body, {status})
NextResponseJson(body, status, calls) ==
    [status |-> status, body |-> body, upstreamCalls |-> calls]

\* the loop returning the last part that has inlineData
RECURSIVE lastInline(_)
lastInline(parts) ==
    IF parts = << >> THEN Null
    ELSE IF parts[Len(parts)].inlineData # Null
        THEN NextResponseJson(
                 << <<"data_url",
                      "data:image/png;base64," \o parts[Len(parts)].inlineData.data>> >>,
                 200, 1)
    ELSE lastInline(SubSeq(parts, 1, Len(parts) - 1))

\* the for loop over the parts: the response for the first part that has
\* inlineData, or Null when the loop ends
RECURSIVE firstInline(_)
firstInline(parts) ==
    IF parts = << >> THEN Null
    ELSE IF Head(parts).inlineData # Null
        THEN NextResponseJson(
                 << <<"data_url",
                      "data:image/png;base64," \o Head(parts).inlineData.data>> >>,
                 200, 1)
    ELSE firstInline(Tail(parts))

\* the catch block
caught(message, calls) ==
    NextResponseJson(
        << <<"error", IF message # "" THEN message ELSE "Server error">> >>,
        500, calls)

POST(req, upstream) ==
    IF ~req.valid THEN caught("Unexpected token", 0)
    ELSE IF upstream.kind = "throws" THEN caught(upstream.message, 1)
    ELSE IF upstream.hasParts /\ firstInline(upstream.parts) # Null
        THEN firstInline(upstream.parts)
    ELSE NextResponseJson(<< <<"error", "No image returned">> >>, 500, 1)

ProxyInit ==
    /\ PageIdle
    /\ composeCall = Null
    /\ composeResult = Null
    /\ proxyCall \in [req : RequestBodies, upstream : UpstreamOutcomes]
    /\ proxyResult = Null
    /\ EnvironmentIdle

callPOST ==
    /\ proxyCall # Null
    /\ proxyResult = Null
    /\ proxyResult' = POST(proxyCall.req, proxyCall.upstream)
    /\ UNCHANGED <<pageVars, composeCall, composeResult, proxyCall>>
    /\ UNCHANGED <<themeVars, storageDown, previewVars>>

ProxyNext == callPOST

SpecProxy == ProxyInit /\ [][ProxyNext]_vars

-----------------------------------------------------------------------------
(* Failed requests on their own: the page issues /api/generate requests    *)
(* and regenerates, and each is answered by a non-2xx response whose body  *)
(* has 0..MaxBodyLen characters.                                           *)

BodyOf(n) == [k \in 1..n |-> "x"]

ErrorResponses ==
    { [kind |-> "http", message |-> << >>, ok |-> FALSE, text |-> BodyOf(n),
       readable |-> TRUE, json |-> NoJson] : n \in 0..MaxBodyLen }

DetailInit ==
    /\ PageIdle
    /\ FunctionsIdle
    /\ EnvironmentIdle

DetailNext ==
    \/ Mount /\ Idle
    \/ handleSubmit /\ Idle
    \/ handleRegenerate /\ Idle
    \/ \E i \in 1..MaxRequests, res \in ErrorResponses :
           requestFails(i, res) /\ Idle

SpecDetail == DetailInit /\ [][DetailNext]_vars

-----------------------------------------------------------------------------
(* The page with its theme and a localStorage whose calls may throw (the   *)
(* browser denies access to the storage, or its quota is exceeded).        *)

ThemeEntry(value) == [value |-> value]

\* what localStorage may hold under "theme" when the page loads
ThemeStoredAtLoad == {Null, ThemeEntry("light"), ThemeEntry("dark"), ThemeEntry("system")}

\* a stored array whose one element is an object of another shape
OtherShapeArray == [kind |-> "array", items |-> << << <<"id", "7">> >> >>]

\* the theme effects of the first render: the stored theme is read and
\* applied, or the system preference is, and the theme is written back
\* (first the initial "light", then the theme read); neither call is
\* guarded, so a call that throws leaves its effect as an uncaught error
themeMount(prefersDark) ==
    LET initial ==
           IF themeStored # Null /\ themeStored.value \in {"light", "dark"}
               THEN themeStored.value
               ELSE IF prefersDark THEN "dark" ELSE "light"
    IN  IF storageDown
            THEN /\ uncaught' = uncaught \cup {"theme init effect",
                                                "theme persist effect"}
                 /\ UNCHANGED <<theme, themeStored>>
            ELSE /\ theme' = initial
                 /\ themeStored' = ThemeEntry(initial)
                 /\ UNCHANGED uncaught

\* onClick of the theme button, and the persist effect its render triggers
onToggleTheme ==
    /\ page = "mounted"
    /\ theme' = IF theme = "light" THEN "dark" ELSE "light"
    /\ IF storageDown
           THEN /\ uncaught' = uncaught \cup {"theme persist effect"}
                /\ UNCHANGED themeStored
           ELSE /\ themeStored' = ThemeEntry(theme')
                /\ UNCHANGED uncaught
    /\ UNCHANGED <<pageVars, fnVars, storageDown, previewVars>>

\* the browser starts or stops making the calls of localStorage throw
storageAvailability ==
    /\ storageDown' = ~storageDown
    /\ UNCHANGED <<pageVars, fnVars, themeVars, previewVars>>

\* no error has escaped: an uncaught error of an effect takes the page down
Running == uncaught = {}

StorageInit ==
    /\ thumbHistory \in StoredAtLoad \cup {OtherShapeArray}
    /\ PageState
    /\ FunctionsIdle
    /\ theme = "light"
    /\ themeStored \in ThemeStoredAtLoad
    /\ storageDown \in BOOLEAN
    /\ uncaught = {}
    /\ uploadPreview = Null
    /\ objectUrls = {}
    /\ urlCount = 0

StorageNext ==
    \/ /\ Mount
       /\ \E prefersDark \in BOOLEAN : themeMount(prefersDark)
       /\ UNCHANGED <<fnVars, storageDown, previewVars>>
    \/ Running /\ onToggleTheme
    \/ Running /\ storageAvailability
    \/ Running /\ handleSubmit /\ Idle
    \/ Running /\ handleRegenerate /\ Idle
    \/ \E i \in 1..MaxRequests, res \in Responses, t \in Timestamps :
           Running /\ requestSucceeds(i, res, t) /\ Idle
    \/ \E i \in 1..MaxRequests, res \in Responses :
           Running /\ requestFails(i, res) /\ Idle
    \/ Running /\ onClearHistory /\ Idle

SpecStorage == StorageInit /\ [][StorageNext]_vars

-----------------------------------------------------------------------------
(* The page with the preview of the uploaded file and its teardown.        *)

\* the n-th URL that URL.createObjectURL returns
ObjectUrl(n) == [blob |-> n]

PreviewFiles ==
    Files \cup { [name |-> "b.png", type |-> <<"image/png">>,
                  dataUrl |-> <<"data:image/png;base64", ",", "REVG">>] }

\* URL.revokeObjectURL: revoking a URL that is not registered does nothing
revokeObjectURL(urls, url) == urls \ {url}

\* the cleanup of the preview effect that does not revoke
previewCleanupNothing(urls, preview) == urls

\* the cleanup of the preview effect, run when uploadPreview changes and
\* when the page is torn down
previewCleanup(urls, preview) ==
    IF preview # Null THEN revokeObjectURL(urls, preview) ELSE urls

\* onFileChange, its part for the preview: the URL of the previous preview
\* is revoked and a URL is created for the file; the render that follows
\* runs the cleanup of the preview effect for the previous URL
onFileChangePreview(file) ==
    LET revoked == IF uploadPreview # Null
                       THEN revokeObjectURL(objectUrls, uploadPreview)
                       ELSE objectUrls
        url == ObjectUrl(urlCount + 1)
        created == IF file # Null THEN revoked \cup {url} ELSE revoked
        preview == IF file # Null THEN url ELSE Null
    IN  /\ file # Null => urlCount < MaxPreviews
        /\ urlCount' = IF file # Null THEN urlCount + 1 ELSE urlCount
        /\ uploadPreview' = preview
        /\ objectUrls' = IF preview # uploadPreview
                             THEN previewCleanup(created, uploadPreview)
                             ELSE created

\* the page is torn down: the cleanups of its effects run
Unmount ==
    /\ page = "mounted"
    /\ page' = "removed"
    /\ objectUrls' = previewCleanup(objectUrls, uploadPreview)
    /\ UNCHANGED <<thumbHistory, answers, prompt, promptTouched, uploadFile,
                   imageUrl, loading, error, history, lastRequestRef, inflight,
                   fetchCount, lastFetch>>
    /\ UNCHANGED <<fnVars, themeVars, storageDown, uploadPreview, urlCount>>

PreviewInit ==
    /\ PageIdle
    /\ FunctionsIdle
    /\ EnvironmentIdle

PreviewNext ==
    \/ Mount /\ Idle
    \/ \E f \in PreviewFiles \cup {Null} :
           /\ onFileChange(f)
           /\ onFileChangePreview(f)
           /\ UNCHANGED <<fnVars, themeVars, storageDown>>
    \/ \E kv \in AnswerInputs : onAnswersChange(kv[1], kv[2]) /\ Idle
    \/ \E v \in PromptInputs : onPromptChange(v) /\ Idle
    \/ onSyncPrompt /\ Idle
    \/ Unmount

SpecPreview == PreviewInit /\ [][PreviewNext]_vars

-----------------------------------------------------------------------------
(* Properties.                                                             *)

\* a fetch settles with res and the suspended handler i runs to its end
settles(i, res, t) == requestSucceeds(i, res, t) \/ requestFails(i, res)

\* a 2xx response that carries a non-empty data_url
Successful(res) ==
    res.kind = "http" /\ res.ok /\ res.json.valid /\ res.json.data_url # ""

\* C1: a submit whose effective prompt (the prompt field if it is non-empty,
\* otherwise the derived prompt, then trimmed) is empty issues no fetch, sets
\* the validation message, leaves the busy flag false and leaves the history
\* and the remembered request unchanged.
C1_SubmitValidation ==
    [][ ( /\ Trim(IF prompt # << >>
                     THEN prompt
                     ELSE composePrompt(answers, uploadFile # Null)) = << >>
          /\ handleSubmit )
        => /\ fetchCount' = fetchCount
           /\ lastFetch' = lastFetch
           /\ inflight' = inflight
           /\ error' = ValidationMessage
           /\ ~loading /\ ~loading'
           /\ history' = history
           /\ thumbHistory' = thumbHistory
           /\ lastRequestRef' = lastRequestRef ]_vars

\* a submit was rejected by the validation after an earlier request
C1_Witness ==
    /\ error = ValidationMessage
    /\ prompt = <<" ">>
    /\ ~loading
    /\ lastRequestRef # Null

\* C2: a successful response puts exactly one new item at index 1 of the
\* history, the item of that response, and the earlier items follow it in
\* their order.
C2_SuccessPrepends ==
    [][ \A i \in DOMAIN inflight, res \in Responses, t \in Timestamps :
          (Successful(res) /\ settles(i, res, t))
          => /\ Len(history') = Len(history) + 1
             /\ history'[1].data_url = res.json.data_url
             /\ history'[1].prompt = inflight[i].payload[1][2]
             /\ \A k \in DOMAIN history : history'[k + 1] = history[k] ]_vars

\* two generations succeeded after a history of one item was loaded
C2_Witness ==
    /\ Len(history) = 3
    /\ history[3] = OldItem
    /\ history[1].data_url \in DataUrls
    /\ history[2].data_url \in DataUrls

\* C3: a regenerate issues a fetch with the route and the serialized payload
\* of the fetch issued before it, whatever the prompt field, the answers and
\* the file are now, and does nothing when no request is remembered.
C3_RegenerateIdentical ==
    [][ handleRegenerate
        => IF lastRequestRef = Null
               THEN UNCHANGED pageVars
               ELSE /\ fetchCount > 0
                    /\ fetchCount' = fetchCount + 1
                    /\ lastFetch' = lastFetch
                    /\ lastFetch'.route = lastRequestRef.route
                    /\ lastFetch'.body = JSONstringify(lastRequestRef.payload) ]_vars

\* a regenerate is in flight while the prompt field is blank, so that a
\* submit would be rejected
C3_Witness ==
    /\ Len(inflight) = 1
    /\ inflight[1].kind = "regenerate"
    /\ prompt = <<" ">>
    /\ lastFetch.body # JSONstringify(<< <<"prompt", Trim(prompt)>> >>)

\* C4: the submit and regenerate invocations that have not run to their end
\* (reading the file or waiting for the fetch) number 0 or 1, and 1 exactly
\* when the busy flag is true.
C4_SingleRequest ==
    /\ Len(inflight) \in {0, 1}
    /\ Len(inflight) = 1 <=> loading

\* a regenerate is pending after the submit before it has ended
C4_Witness ==
    /\ loading
    /\ Len(inflight) = 1
    /\ inflight[1].kind = "regenerate"
    /\ fetchCount = 2

\* a response, or a rejection, that makes the handler fail
Failing(res) ==
    res.kind = "reject" \/ ~res.ok \/ ~res.json.valid \/ res.json.data_url = ""

\* the suspended handler i ends in its catch block
fails(i) ==
    \/ fileReadRejects(i)
    \/ \E res \in Responses, t \in Timestamps : Failing(res) /\ settles(i, res, t)

\* C5 as stated: on a failure the error is non-empty, the busy flag is false
\* again, and the history, its stored copy and the displayed image are what
\* they were when the request was issued.
C5_FailureRestoresAll ==
    [][ \A i \in DOMAIN inflight :
          fails(i)
          => /\ error' # << >>
             /\ ~loading'
             /\ history' = inflight[i].before.history
             /\ thumbHistory' = inflight[i].before.thumbHistory
             /\ imageUrl' = inflight[i].before.imageUrl ]_vars

\* C5 as amended: on a failure the error is non-empty, the busy flag is false
\* again, the history and its stored copy are what they were when the
\* request was issued, and the failure leaves the displayed image unchanged:
\* it is the image shown when the request was issued, or the image of a
\* history entry selected since.
C5_FailureKeepsHistory ==
    [][ \A i \in DOMAIN inflight :
          fails(i)
          => /\ error' # << >>
             /\ ~loading'
             /\ history' = inflight[i].before.history
             /\ thumbHistory' = inflight[i].before.thumbHistory
             /\ imageUrl' = imageUrl
             /\ \/ imageUrl = inflight[i].before.imageUrl
                \/ \E k \in DOMAIN history : imageUrl = history[k].data_url ]_vars

\* a request has failed for a missing data_url after a history entry was
\* selected
C5_Witness ==
    /\ error = <<"Invalid response: missing data_url">>
    /\ ~loading
    /\ inflight = << >>
    /\ fetchCount > 0
    /\ history = <<OldItem>>
    /\ thumbHistory = StoreHistory(<<OldItem>>)
    /\ imageUrl = OldItem.data_url

\* C6: once the page has loaded, an array stored under the history key is
\* the history item for item, the history is empty when no array is stored,
\* and Clear empties the history and removes the entry.
C6_StorageMirrorsHistory ==
    /\ [](page = "mounted"
            => IF thumbHistory.kind = "array"
                   THEN /\ Len(thumbHistory.items) = Len(history)
                        /\ \A k \in DOMAIN history :
                               ParseItem(thumbHistory.items[k]) = history[k]
                   ELSE history = << >>)
    /\ [][onClearHistory => (history' = << >> /\ thumbHistory' = NoEntry)]_vars

\* the history was cleared after a generation had been stored
C6_Witness ==
    /\ page = "mounted"
    /\ imageUrl \in DataUrls
    /\ history = << >>
    /\ thumbHistory = NoEntry
    /\ fetchCount > 0

\* C10: the prompt mode starts as derived, an edit of the prompt field makes
\* it manually-overridden, and only the resync makes it derived again.
C10_PromptMode ==
    /\ ~promptTouched
    /\ [][ /\ (\E v \in PromptInputs : onPromptChange(v)) => promptTouched'
           /\ (promptTouched /\ ~promptTouched') => onSyncPrompt ]_vars

\* a request was issued and answered while the prompt was overridden
C10_Witness ==
    /\ promptTouched
    /\ prompt = <<" ", "a">>
    /\ answers.category = "Other"
    /\ uploadFile # Null
    /\ fetchCount = 2
    /\ history = << >>
    /\ ~loading

\* the index of the first part that carries inline data, 0 when none does
FirstInlineIndex(parts) ==
    IF \E i \in DOMAIN parts : parts[i].inlineData # Null
        THEN CHOOSE i \in DOMAIN parts :
                 /\ parts[i].inlineData # Null
                 /\ \A j \in 1..(i - 1) : parts[j].inlineData = Null
        ELSE 0

\* C7: the proxy answers with 200 and exactly {data_url: "data:image/png;
\* base64," + the data of the first inline part} when a part carries inline
\* data, with 500 and {error: "No image returned"} when none does, and with
\* 500 and {error: the exception's message, or "Server error" when it is
\* empty} when a call throws; it calls the upstream at most once.
C7_ProxyResponses ==
    proxyResult # Null =>
        LET req == proxyCall.req
            up == proxyCall.upstream
            at == FirstInlineIndex(up.parts)
        IN  /\ proxyResult.upstreamCalls <= 1
            /\ (req.valid /\ up.kind = "returns" /\ at # 0)
                 => /\ proxyResult.status = 200
                    /\ proxyResult.body =
                         << <<"data_url",
                              "data:image/png;base64," \o up.parts[at].inlineData.data>> >>
                    /\ proxyResult.upstreamCalls = 1
            /\ (req.valid /\ up.kind = "returns" /\ at = 0)
                 => /\ proxyResult.status = 500
                    /\ proxyResult.body = << <<"error", "No image returned">> >>
                    /\ proxyResult.upstreamCalls = 1
            /\ (req.valid /\ up.kind = "throws")
                 => /\ proxyResult.status = 500
                    /\ proxyResult.body =
                         << <<"error", IF up.message = "" THEN "Server error"
                                                         ELSE up.message>> >>
                    /\ proxyResult.upstreamCalls = 1
            /\ ~req.valid
                 => /\ proxyResult.status = 500
                    /\ Len(proxyResult.body) = 1
                    /\ proxyResult.body[1][1] = "error"
                    /\ proxyResult.body[1][2] # ""
                    /\ proxyResult.upstreamCalls = 0

\* the proxy answered an upstream response whose second and third parts
\* carry different inline data
C7_Witness ==
    /\ proxyResult # Null
    /\ proxyCall.upstream.kind = "returns"
    /\ proxyCall.upstream.parts =
           <<TextPart, InlinePart("BBBB"), InlinePart("AAAA")>>
    /\ proxyResult.status = 200

\* sub occurs in s as a run of consecutive chunks
Occurs(sub, s) ==
    \E k \in 0..(Len(s) - Len(sub)) : SubSeq(s, k + 1, k + Len(sub)) = sub

\* C8: when an enum field is its custom-escape value and the matching
\* free-text field is empty or blank, the clause of that field in the
\* composed prompt uses the escape label.
C8_BlankCustomFallsBack ==
    composeResult # Null =>
        LET a == composeCall.answers
        IN  /\ (a.category = "Other" /\ Trim(a.customCategory) = << >>)
                 => Occurs(<<"Category:", " ", "Other", ".", " ", "Style:">>,
                           composeResult)
            /\ (a.style = "Custom" /\ Trim(a.customStyle) = << >>)
                 => Occurs(<<"Style:", " ", "Custom", ".", " ", "Colors/Vibe:">>,
                           composeResult)
            /\ (a.vibe = "Custom" /\ Trim(a.customVibe) = << >>)
                 => Occurs(<<"Colors/Vibe:", " ", "Custom", ".", " ">>,
                           composeResult)

\* the clause texts C9 allows for an enum field: the label when the field is
\* not the escape value, otherwise the free text or the escape label
ClauseTexts(value, escape, custom) ==
    IF value # escape THEN {<<value>>} ELSE {custom, <<escape>>}

\* C9: the composed prompt is the single-space join of the category, style
\* and colors/vibe clauses (the enum label verbatim when the field is not
\* the escape value), the overlay clause (the trimmed text quoted, or "No
\* text overlay."), the reference clause exactly when the flag is true, and
\* the guidelines clause last.
C9_ComposedPromptShape ==
    composeResult # Null =>
        LET a == composeCall.answers
            text == Trim(a.textOverlay)
        IN  \E c \in ClauseTexts(a.category, "Other", a.customCategory),
               st \in ClauseTexts(a.style, "Custom", a.customStyle),
               v \in ClauseTexts(a.vibe, "Custom", a.customVibe) :
                composeResult =
                    <<"Category:", " ">> \o c \o <<".", " ">>
                    \o <<"Style:", " ">> \o st \o <<".", " ">>
                    \o <<"Colors/Vibe:", " ">> \o v \o <<".", " ">>
                    \o (IF text # << >>
                            THEN <<"Include text overlay:", " ", "\"">> \o text
                                     \o <<"\"", ".">>
                            ELSE <<"No text overlay.">>)
                    \o (IF composeCall.hasImage
                            THEN <<" ", "Use the uploaded reference image as visual guidance.">>
                            ELSE << >>)
                    \o <<" ", "16:9 thumbnail composition, high contrast, no watermarks, suitable for social/YouTube.">>

\* a prompt was composed with a reference image, an overlay text that has
\* blanks around it, a custom category and an enum style
C9_Witness ==
    /\ composeResult # Null
    /\ composeCall.hasImage
    /\ composeCall.answers.textOverlay = <<" ", "5", " ", "T", " ">>
    /\ composeCall.answers.category = "Other"
    /\ composeCall.answers.customCategory = <<"N", "e", "o">>
    /\ composeCall.answers.style = "Bold"
    /\ composeCall.answers.customStyle = <<"N", "e", "o">>

\* C11: in every state after the effects have run in which the prompt mode
\* is derived, the prompt is composePrompt(answers, a file is uploaded);
\* while the mode is manually-overridden a change of the answers or of the
\* uploaded file leaves the prompt unchanged (a step that changes the prompt
\* then is neither), and the resync sets the prompt to the prompt composed
\* from the answers and the file of that moment.
C11_DerivedPromptFollows ==
    /\ [](page = "mounted" /\ ~promptTouched
            => prompt = composePrompt(answers, uploadFile # Null))
    /\ [][ (promptTouched /\ prompt' # prompt)
           => /\ ~\E kv \in AnswerInputs : onAnswersChange(kv[1], kv[2])
              /\ ~\E f \in Files \cup {Null} : onFileChange(f) ]_vars
    /\ [][ (promptTouched /\ ~promptTouched' /\ onSyncPrompt)
           => /\ prompt' = composePrompt(answers, uploadFile # Null)
              /\ answers' = answers
              /\ uploadFile' = uploadFile ]_vars

\* the prompt was resynced after a history entry had been selected and a
\* file had been added while the mode was manually-overridden
C11_Witness ==
    /\ ~promptTouched
    /\ imageUrl = OldItem.data_url
    /\ answers = OldItem.answers
    /\ uploadFile # Null
    /\ prompt = composePrompt(OldItem.answers, TRUE)
    /\ prompt # OldItem.prompt

\* the page shows history entry k as onSelectHistory loads it
Shows(k) ==
    /\ k \in DOMAIN history
    /\ imageUrl = history[k].data_url
    /\ prompt = history[k].prompt
    /\ answers = history[k].answers
    /\ promptTouched

\* C12: selecting a history entry sets the displayed image, the prompt and
\* the answers to the entry's values and leaves the remembered request, the
\* history, the uploaded file and the busy flag unchanged; a regenerate that
\* follows issues the request remembered before the selection (the fetch
\* issued last), not one built from the selected entry.
C12_SelectKeepsLastRequest ==
    /\ [][ \A i \in DOMAIN history :
             onSelectHistory(i)
             => /\ imageUrl' = history[i].data_url
                /\ prompt' = history[i].prompt
                /\ answers' = history[i].answers
                /\ lastRequestRef' = lastRequestRef
                /\ history' = history
                /\ thumbHistory' = thumbHistory
                /\ uploadFile' = uploadFile
                /\ loading' = loading
                /\ lastFetch' = lastFetch ]_vars
    /\ [][ ( /\ handleRegenerate
             /\ lastRequestRef # Null
             /\ \E k \in DOMAIN history : Shows(k) )
           => /\ fetchCount' = fetchCount + 1
              /\ lastFetch' = lastFetch
              /\ lastFetch' = Fetch(lastRequestRef.route, lastRequestRef.payload)
              /\ lastRequestRef' = lastRequestRef ]_vars

\* a regenerate is in flight after the stored entry was selected, and the
\* request it issued does not carry the selected entry's prompt
C12_Witness ==
    /\ Len(inflight) = 1
    /\ inflight[1].kind = "regenerate"
    /\ imageUrl = OldItem.data_url
    /\ prompt = OldItem.prompt
    /\ answers = OldItem.answers
    /\ promptTouched
    /\ lastFetch.body # JSONstringify(<< <<"prompt", OldItem.prompt>> >>)

\* the detail string of a failure message: what follows the label, the
\* blank and "Details: "
DetailOf(message) == SubSeq(message, 5, Len(message))

\* C13: on a non-2xx response the detail string appended to the failure
\* message has at most 300 characters, whatever the length of the body, and
\* is the whole body when the body has 300 characters or fewer.
C13_DetailAtMost300 ==
    [][ \A i \in DOMAIN inflight, res \in ErrorResponses :
          requestFails(i, res)
          => /\ Len(DetailOf(error')) <= 300
             /\ Len(res.text) <= 300 => DetailOf(error') = res.text ]_vars

\* a stored element that has the four properties of a HistoryItem
IsHistoryItem(m) ==
    /\ Len(m) = 4
    /\ m[1][1] = "data_url"
    /\ m[2][1] = "prompt"
    /\ m[3][1] = "answers"
    /\ m[4][1] = "timestamp"

\* the stored content is an array of HistoryItem
WellFormedHistory(stored) ==
    /\ stored.kind = "array"
    /\ \A k \in DOMAIN stored.items : IsHistoryItem(stored.items[k])

\* C14: no failure of a localStorage call, for the theme and for the
\* history, escapes as an error, and stored history content that is not a
\* well-formed array of HistoryItem is discarded when the page loads: the
\* history then starts empty.
C14_StorageFailuresIgnored ==
    /\ [](uncaught = {})
    /\ [][ (Mount /\ ~WellFormedHistory(thumbHistory))
           => history' = << >> ]_vars

\* the names of the members of a payload, in their order
Keys(payload) == [k \in DOMAIN payload |-> payload[k][1]]

\* C15: a submit that passes the validation and issues a request leaves
\* that request as the remembered one: route /api/edit with the payload
\* {prompt, base64Image, mimeType} exactly when a file was uploaded at
\* submit time, otherwise route /api/generate with the payload {prompt};
\* a step that changes the remembered request is such a submit issuing its
\* request, and is not a rejected submit, a failed file read, a regenerate,
\* a history selection, a clear, nor the success or failure of a request.
C15_LastRequestIsSubmitted ==
    /\ [][ (fetchCount' # fetchCount /\ handleSubmit)
           => /\ uploadFile = Null
              /\ lastRequestRef' =
                     [route |-> "/api/generate",
                      payload |-> << <<"prompt",
                          Trim(IF prompt # << >>
                                   THEN prompt
                                   ELSE composePrompt(answers, FALSE))>> >>]
              /\ lastFetch' = Fetch("/api/generate", lastRequestRef'.payload) ]_vars
    /\ [][ \A i \in DOMAIN inflight :
             (fetchCount' # fetchCount /\ fileReadResolves(i))
             => /\ inflight[i].kind = "submit"
                /\ inflight[i].file # Null
                /\ lastRequestRef'.route = "/api/edit"
                /\ Keys(lastRequestRef'.payload) =
                       <<"prompt", "base64Image", "mimeType">>
                /\ lastRequestRef'.payload[1][2] = inflight[i].payload[1][2]
                /\ lastRequestRef'.payload[2][2] = <<"QUJD">>
                /\ lastRequestRef'.payload[3][2] = inflight[i].file.type
                /\ fetchCount' = fetchCount + 1
                /\ lastFetch' = Fetch("/api/edit", lastRequestRef'.payload) ]_vars
    /\ [][ lastRequestRef' # lastRequestRef
           => /\ fetchCount' = fetchCount + 1
              /\ \/ handleSubmit
                 \/ \E i \in DOMAIN inflight : fileReadResolves(i)
              /\ ~handleRegenerate
              /\ ~onClearHistory
              /\ ~\E i \in DOMAIN history : onSelectHistory(i)
              /\ ~\E i \in DOMAIN inflight : fileReadRejects(i)
              /\ ~\E i \in DOMAIN inflight, res \in Responses, t \in Timestamps :
                     settles(i, res, t) ]_vars

\* an /api/edit request is remembered after it failed and the file was
\* removed, while a request without a file had been remembered before it
C15_Witness ==
    /\ lastRequestRef # Null
    /\ lastRequestRef.route = "/api/edit"
    /\ Len(lastRequestRef.payload) = 3
    /\ error = <<"Edit request failed.", " ", "Details:", " ", "N", "o">>
    /\ ~loading
    /\ uploadFile = Null
    /\ fetchCount = 2

\* C16: preview handles do not leak.  At any time at most one object URL is
\* unreleased, and it is the URL created last, for the file that is
\* uploaded now; every URL created for an earlier file has been released,
\* and none is unreleased after the file was cleared or the page was torn
\* down.
C16_NoPreviewLeak ==
    /\ Cardinality(objectUrls) <= 1
    /\ \A u \in objectUrls :
           /\ u = ObjectUrl(urlCount)
           /\ u = uploadPreview
           /\ uploadFile # Null
    /\ \A n \in 1..(urlCount - 1) : ObjectUrl(n) \notin objectUrls
    /\ uploadFile = Null => objectUrls = {}
    /\ page = "removed" => objectUrls = {}
    /\ (page = "mounted" /\ uploadFile # Null) => objectUrls = {uploadPreview}

\* the page was torn down while it showed the preview of the third file
\* selected, after a replacement and a removal
C16_Witness ==
    /\ page = "removed"
    /\ urlCount = 3
    /\ uploadFile # Null
    /\ uploadPreview = ObjectUrl(3)
    /\ objectUrls = {}

=============================================================================
